---- MODULE Spec2Model ----
(***************************************************************************)
(* SQLite2Excel: sqlite_to_xlsx_converter.py.                              *)
(*                                                                         *)
(* The worker thread Converter.run exports every table of a SQLite file    *)
(* to one worksheet of an xlsx workbook and reports to the window through  *)
(* the three Qt signals of Communicate (update_prog, wait, done).  The     *)
(* window's closeEvent calls Converter.stop(), which sets a flag the       *)
(* worker polls once per table, after the progress signal.                 *)
(*                                                                         *)
(* Names of tables are sequences of one-character strings, so that         *)
(* str.startswith is computed.  A Python value is [py, v]: the Python type *)
(* sqlite3 returns and the value's text.  A worksheet is a function from   *)
(* <<row, col>> to the stored cell.  The progress value is computed in     *)
(* IEEE 754 binary64, as Python's float does.                              *)
(***************************************************************************)
EXTENDS Integers, Sequences, FiniteSets, TLC

VARIABLES
    file_path,     \* ConverterWindow.file_path: the path chosen in the dialog
    save_path,     \* ConverterWindow.save_path; << >> while it is None
    db,            \* the source file: [kind, catalog]
    pc,            \* the worker's position in Converter.run
    stopped,       \* Converter._stopped
    conn,          \* "unset", "open" or "None" (create_connection's result)
    workbook,      \* "unset", "open", "closed": the xlsxwriter.Workbook handle
    names,         \* run's local: every table name of sqlite_master
    cleaned_names, \* run's local: names kept for export
    i,             \* run's loop index
    table,         \* run's local: the rows select_table returned
    row_number,    \* write_table_to_workbook's loop index
    sheets,        \* the workbook's worksheets, in creation order
    closeCalls,    \* how many times workbook.close() returned
    emitted,       \* every signal emitted, in emission order
    error,         \* the exception that ended the thread, or "none"
    windowOpen,    \* the window is shown and the Qt event loop runs
    delivered,     \* how many emitted signals the window's slots have handled
    prog,          \* QProgressBar value
    logs,          \* QTextEdit lines
    flagSeen,      \* history: self.stopped() returned True at line 208
    stopSheets,    \* history: Len(sheets) when stop() ran, -1 before
    stopPc,        \* history: the worker's position when stop() ran
    stopAtClose    \* history: _stopped when workbook.close() was called

vars == <<file_path, save_path, db, pc, stopped, conn, workbook, names, cleaned_names, i, table,
          row_number, sheets, closeCalls, emitted, error, windowOpen,
          delivered, prog, logs, flagSeen, stopSheets, stopPc, stopAtClose>>

(***************************************************************************)
(* Bounds of the model.                                                    *)
(***************************************************************************)
MaxTables == 3

MaxProgTables == 101

(***************************************************************************)
(* Python values and source databases.                                     *)
(***************************************************************************)
PyInt(s) == [py |-> "int", v |-> s]

PyStr(s) == [py |-> "str", v |-> s]

PyNone == [py |-> "NoneType", v |-> ""]

PyBytes(s) == [py |-> "bytes", v |-> s]

N_users == <<"u", "s", "e", "r", "s">>

N_logs == <<"l", "o", "g", "s">>

N_blobs == <<"b", "l", "o", "b", "s">>

N_sqlite_sequence ==
    <<"s", "q", "l", "i", "t", "e", "_", "s", "e", "q", "u", "e", "n", "c", "e">>

N_sqlitedata == <<"s", "q", "l", "i", "t", "e", "d", "a", "t", "a">>

N_ix_users == <<"i", "x", "_", "u", "s", "e", "r", "s">>

\* The rows of sqlite_master (and each table's content) a source may hold.
CatalogPool ==
    { [type |-> "table", name |-> N_users, cols |-> <<"id", "name">>,
       rows |-> << <<PyInt("1"), PyStr("Ann")>>, <<PyInt("2"), PyNone>> >>],
      [type |-> "table", name |-> N_logs, cols |-> <<"id", "msg">>,
       rows |-> << >>],
      [type |-> "table", name |-> N_blobs, cols |-> <<"k", "b">>,
       rows |-> << <<PyInt("1"), PyBytes("x")>> >>],
      [type |-> "table", name |-> N_sqlite_sequence, cols |-> <<"name", "seq">>,
       rows |-> << <<PyStr("users"), PyInt("2")>> >>],
      [type |-> "table", name |-> N_sqlitedata, cols |-> <<"v">>,
       rows |-> << <<PyInt("7")>> >>],
      [type |-> "index", name |-> N_ix_users, cols |-> << >>, rows |-> << >>] }

\* Catalogs of at most n entries, no entry twice (sqlite_master names are unique).
Catalogs(n) ==
    UNION { { c \in [1..k -> CatalogPool] :
                \A a, b \in 1..k : a # b => c[a] # c[b] } : k \in 0..n }

Digit10 == <<"0", "1", "2", "3", "4", "5", "6", "7", "8", "9">>

\* The k-th of a run of generated tables: "t000", "t001", ...
GenTable(k) ==
    [type |-> "table",
     name |-> <<"t", Digit10[((k \div 100) % 10) + 1],
                Digit10[((k \div 10) % 10) + 1], Digit10[(k % 10) + 1]>>,
     cols |-> <<"c">>, rows |-> << >>]

(***************************************************************************)
(* Pure functions of the source.                                           *)
(***************************************************************************)
\* str.startswith
startswith(s, prefix) ==
    Len(s) >= Len(prefix) /\ SubSeq(s, 1, Len(prefix)) = prefix

\* "SELECT name FROM sqlite_master WHERE type='table';", flattened
query_names(catalog) ==
    LET IsTable(e) == e.type = "table"
        tabs == SelectSeq(catalog, IsTable)
    IN  [k \in 1..Len(tabs) |-> tabs[k].name]

\* the prefix line 193 tests
UnwantedPrefix == <<"s", "q", "l", "i", "t", "e">>

\* [item for item in names if not item.startswith("sqlite")]
clean_names(ns) ==
    LET Wanted(item) == ~startswith(item, UnwantedPrefix)
    IN  SelectSeq(ns, Wanted)

\* the catalog entry of the table called name
EntryOf(catalog, name) ==
    CHOOSE e \in {catalog[k] : k \in 1..Len(catalog)} :
        e.type = "table" /\ e.name = name

\* mutant: the column names appended after the rows
select_table_header_last(entry) ==
    entry.rows \o <<[c \in 1..Len(entry.cols) |-> PyStr(entry.cols[c])]>>

\* select_table: the column names, then every row of the table
select_table(entry) ==
    <<[c \in 1..Len(entry.cols) |-> PyStr(entry.cols[c])]>> \o entry.rows

\* worksheet.write dispatches on the Python type; bytes is not supported
Writable(value) == value.py \in {"int", "str", "NoneType"}

\* what worksheet.write stores for a supported value that is not None
XlsxCell(value) ==
    [kind |-> IF value.py = "int" THEN "number" ELSE "string", v |-> value.v]

\* the columns of row written before worksheet.write raises (all, if none does)
WrittenCols(row, ncols) ==
    IF \A c \in 1..ncols : Writable(row[c]) THEN ncols
    ELSE (CHOOSE c \in 1..ncols :
            ~Writable(row[c]) /\ \A b \in 1..(c - 1) : Writable(row[b])) - 1

\* the cells the inner loop stores for row r: None is written as a blank
\* cell without format, which xlsxwriter does not store
write_row(cells, row, r, ncols) ==
    LET done == WrittenCols(row, ncols)
        kept == {c \in 1..done : row[c].py # "NoneType"}
    IN  [rc \in (DOMAIN cells) \cup {<<r, c - 1>> : c \in kept} |->
            IF rc \in DOMAIN cells /\ ~(rc[1] = r /\ (rc[2] + 1) \in kept)
            THEN cells[rc] ELSE XlsxCell(row[rc[2] + 1])]

(***************************************************************************)
(* i / len(cleaned_names) * 100 in IEEE 754 binary64, then the conversion  *)
(* to the int the signal carries.  A float is [m, e]: the 52 fraction bits *)
(* of the significand as four 13-bit limbs, and the exponent; its value is *)
(* (1 + m / 2^52) * 2^e.  Rounding is to nearest, ties to even.            *)
(***************************************************************************)
Limb == 2^13

\* 1.m1m2m3m4 (+ 1 unit in the last place if up), renormalised
FloatRound(m1, m2, m3, m4, up, e) ==
    LET s4 == m4 + (IF up THEN 1 ELSE 0)
        s3 == m3 + (s4 \div Limb)
        s2 == m2 + (s3 \div Limb)
        s1 == m1 + (s2 \div Limb)
    IN  IF s1 \div Limb = 1
        THEN [m |-> <<0, 0, 0, 0>>, e |-> e + 1]
        ELSE [m |-> <<s1, s2 % Limb, s3 % Limb, s4 % Limb>>, e |-> e]

\* i / n for 0 < i < n: long division to 53 bits, a guard bit and a sticky bit
FloatDiv(a, n) ==
    LET z  == CHOOSE k \in 0..30 : a * 2^k < n /\ a * 2^(k + 1) >= n
        r0 == a * 2^(z + 1) - n
        d1 == (r0 * Limb) \div n
        r1 == (r0 * Limb) % n
        d2 == (r1 * Limb) \div n
        r2 == (r1 * Limb) % n
        d3 == (r2 * Limb) \div n
        r3 == (r2 * Limb) % n
        d4 == (r3 * Limb) \div n
        r4 == (r3 * Limb) % n
        guard == (2 * r4) \div n
        r5 == (2 * r4) % n
        up == guard = 1 /\ (r5 # 0 \/ d4 % 2 = 1)
    IN  FloatRound(d1, d2, d3, d4, up, -(z + 1))

\* x * c for a small integer c >= 1: the exact product, rounded to 53 bits
FloatMul(x, c) ==
    LET t4 == x.m[4] * c
        t3 == x.m[3] * c + (t4 \div Limb)
        t2 == x.m[2] * c + (t3 \div Limb)
        t1 == x.m[1] * c + (t2 \div Limb)
        p0 == c + (t1 \div Limb)
        p1 == t1 % Limb
        p2 == t2 % Limb
        p3 == t3 % Limb
        p4 == t4 % Limb
        d  == CHOOSE k \in 0..12 : 2^k <= p0 /\ p0 < 2^(k + 1)
        lo == 2^d
        hi == Limb \div lo
        dropped == p4 % lo
        up == 2 * dropped > lo \/ (2 * dropped = lo /\ (p4 \div lo) % 2 = 1)
    IN  FloatRound((p0 % lo) * hi + (p1 \div lo), (p1 % lo) * hi + (p2 \div lo),
                   (p2 % lo) * hi + (p3 \div lo), (p3 % lo) * hi + (p4 \div lo),
                   up, x.e + d)

\* the int a float below 2^13 converts to: truncation
FloatToInt(x) ==
    IF x.e < 0 THEN 0 ELSE 2^x.e + (x.m[1] \div 2^(13 - x.e))

\* mutant: the tables left, not the tables done
Progress_remaining(a, n) == ((n - a) * 100) \div n

\* the argument of self.ui.update_prog.emit at index a of n tables
Progress(a, n) ==
    IF a = 0 THEN 0 ELSE FloatToInt(FloatMul(FloatDiv(a, n), 100))

\* Progress at every index of every table count a run can have, by table
\* count and index
ProgressOf ==
    LET most == IF MaxTables > MaxProgTables THEN MaxTables ELSE MaxProgTables
    IN  [n \in 1..most |-> [a \in 0..(n - 1) |-> Progress(a, n)]]

(***************************************************************************)
(* ConverterWindow.set_save_path.  A path is a sequence of one-character   *)
(* strings.                                                                *)
(***************************************************************************)
P_data_db == <<"d", "a", "t", "a", ".", "d", "b">>

P_a_sqlite == <<"a", ".", "s", "q", "l", "i", "t", "e">>

P_b_sqlite3 == <<"b", ".", "s", "q", "l", "i", "t", "e", "3">>

P_c_db3 == <<"c", ".", "d", "b", "3">>

P_notes_txt == <<"n", "o", "t", "e", "s", ".", "t", "x", "t">>

\* the paths the file dialog may return
Paths == {P_data_db, P_a_sqlite, P_b_sqlite3, P_c_db3, P_notes_txt}

\* ["db", "sqlite", "sqlite3", "db3"]
KnownExtensions ==
    { <<"d", "b">>, <<"s", "q", "l", "i", "t", "e">>,
      <<"s", "q", "l", "i", "t", "e", "3">>, <<"d", "b", "3">> }

\* path.split(".")[-1]: what follows the last ".", the whole path if it has none
LastPart(path) ==
    LET dots == {k \in 1..Len(path) : path[k] = "."}
        last == IF dots = {} THEN 0 ELSE CHOOSE k \in dots : \A j \in dots : j <= k
    IN  SubSeq(path, last + 1, Len(path))

\* set_save_path: check_extension is a str, so isinstance(check_extension,
\* list) is False and extension is None
set_save_path(path) ==
    LET check_extension == [py |-> "str", v |-> LastPart(path)]
        extension == IF check_extension.py = "list"
                     THEN check_extension
                     ELSE [py |-> "NoneType", v |-> << >>]
    IN  IF extension.py = "str" /\ extension.v \in KnownExtensions
        THEN SubSeq(path, 1, Len(path) - Len(extension.v)) \o <<"x", "l", "s", "x">>
        ELSE path \o <<".", "x", "l", "s", "x">>

(***************************************************************************)
(* The state when ConverterWindow.__init__ reaches self.init(): the fields *)
(* are None, the dialog's answer and the file behind it are chosen.        *)
(***************************************************************************)
EmptyCells == [rc \in {} |-> 0]

Signal(sig, x) == [sig |-> sig, x |-> x]

\* The files a user can select: a database, a path sqlite3.connect creates
\* as an empty database, a file that is no database (the first query raises),
\* and a path sqlite3.connect cannot open.
Sources(n) ==
    {[kind |-> "valid", catalog |-> c] : c \in Catalogs(n)}
    \cup {[kind |-> k, catalog |-> << >>] : k \in {"missing", "notadb", "unopenable"}}

\* A database of n generated tables, for every n up to the bound.
ProgSources(n) ==
    {[kind |-> "valid", catalog |-> [t \in 1..k |-> GenTable(t)]] : k \in 0..n}

InitOf(paths, sources) ==
    /\ file_path \in paths
    /\ save_path = << >>
    /\ db \in sources
    /\ pc = "idle"
    /\ stopped = FALSE
    /\ conn = "unset"
    /\ workbook = "unset"
    /\ names = << >>
    /\ cleaned_names = << >>
    /\ i = 0
    /\ table = << >>
    /\ row_number = 0
    /\ sheets = << >>
    /\ closeCalls = 0
    /\ emitted = << >>
    /\ error = "none"
    /\ windowOpen = FALSE
    /\ delivered = 0
    /\ prog = 0
    /\ logs = << >>
    /\ flagSeen = FALSE
    /\ stopSheets = -1
    /\ stopPc = "none"
    /\ stopAtClose = FALSE

Init == InitOf(Paths, Sources(MaxTables))

InitProg == InitOf({P_data_db}, ProgSources(MaxProgTables))

hostVars == <<file_path, save_path, windowOpen, delivered, prog, logs, stopped,
              stopSheets, stopPc>>

(***************************************************************************)
(* Converter.run, one action per statement the other thread can see.       *)
(***************************************************************************)
\* the thread ends with an uncaught exception
Raise(e) ==
    /\ pc' = "Failed"
    /\ error' = e

\* workbook = xlsxwriter.Workbook(self.save_path)
CreateWorkbook ==
    /\ pc = "workbook"
    /\ workbook' = "open"
    /\ pc' = "connect"
    /\ UNCHANGED <<db, conn, names, cleaned_names, i, table, row_number, sheets,
                   closeCalls, emitted, error, flagSeen, stopAtClose>>
    /\ UNCHANGED hostVars

\* conn = self.create_connection(db_file=self.db_file): sqlite3.Error is
\* printed and None returned
CreateConnection ==
    /\ pc = "connect"
    /\ conn' = IF db.kind = "unopenable" THEN "None" ELSE "open"
    /\ pc' = "list"
    /\ UNCHANGED <<db, workbook, names, cleaned_names, i, table, row_number, sheets,
                   closeCalls, emitted, error, flagSeen, stopAtClose>>
    /\ UNCHANGED hostVars

\* mutant: run returns at once when there is nothing to export
ListTables_returns_on_empty ==
    /\ pc = "list"
    /\ IF conn = "None"
       THEN Raise("AttributeError") /\ UNCHANGED <<names, cleaned_names>>
       ELSE IF db.kind = "notadb"
       THEN Raise("DatabaseError") /\ UNCHANGED <<names, cleaned_names>>
       ELSE /\ names' = query_names(db.catalog)
            /\ cleaned_names' = clean_names(names')
            /\ pc' = IF cleaned_names' = << >> THEN "Done" ELSE "select"
            /\ error' = error
    /\ UNCHANGED <<db, conn, workbook, i, table, row_number, sheets,
                   closeCalls, emitted, flagSeen, stopAtClose>>
    /\ UNCHANGED hostVars

\* cur = conn.cursor() ... cleaned_names = [...], and the loop's entry
ListTables ==
    /\ pc = "list"
    /\ IF conn = "None"
       THEN Raise("AttributeError") /\ UNCHANGED <<names, cleaned_names>>
       ELSE IF db.kind = "notadb"
       THEN Raise("DatabaseError") /\ UNCHANGED <<names, cleaned_names>>
       ELSE /\ names' = query_names(db.catalog)
            /\ cleaned_names' = clean_names(names')
            /\ pc' = IF cleaned_names' = << >> THEN "wait" ELSE "select"
            /\ error' = error
    /\ UNCHANGED <<db, conn, workbook, i, table, row_number, sheets,
                   closeCalls, emitted, flagSeen, stopAtClose>>
    /\ UNCHANGED hostVars

\* table = self.select_table(conn, name)
SelectTable ==
    /\ pc = "select"
    /\ table' = select_table(EntryOf(db.catalog, cleaned_names[i + 1]))
    /\ pc' = "add_worksheet"
    /\ UNCHANGED <<db, conn, workbook, names, cleaned_names, i, row_number, sheets,
                   closeCalls, emitted, error, flagSeen, stopAtClose>>
    /\ UNCHANGED hostVars

\* cur.execute raises: the table is locked or was dropped by another process
SelectTableFails ==
    /\ pc = "select"
    /\ Raise("OperationalError")
    /\ UNCHANGED <<db, conn, workbook, names, cleaned_names, i, table, row_number,
                   sheets, closeCalls, emitted, flagSeen, stopAtClose>>
    /\ UNCHANGED hostVars

\* worksheet = workbook.add_worksheet(worksheet_name); rows = table; cols = ...
AddWorksheet ==
    /\ pc = "add_worksheet"
    /\ sheets' = Append(sheets, [name |-> cleaned_names[i + 1], cells |-> EmptyCells])
    /\ row_number' = 0
    /\ pc' = "rows"
    /\ UNCHANGED <<db, conn, workbook, names, cleaned_names, i, table,
                   closeCalls, emitted, error, flagSeen, stopAtClose>>
    /\ UNCHANGED hostVars

\* mutant: the flag is also polled before each row
WriteRow_checks_flag ==
    /\ pc = "rows"
    /\ row_number < Len(table)
    /\ IF stopped
       THEN /\ pc' = "Cancelled"
            /\ flagSeen' = TRUE
            /\ UNCHANGED <<sheets, row_number, error>>
       ELSE LET row == table[row_number + 1]
                ncols == Len(table[1])
            IN  /\ sheets' = [sheets EXCEPT ![Len(sheets)].cells =
                                 write_row(@, row, row_number, ncols)]
                /\ flagSeen' = flagSeen
                /\ IF WrittenCols(row, ncols) < ncols
                   THEN Raise("TypeError") /\ row_number' = row_number
                   ELSE /\ row_number' = row_number + 1
                        /\ pc' = IF row_number' = Len(table) THEN "emit" ELSE "rows"
                        /\ error' = error
    /\ UNCHANGED <<db, conn, workbook, names, cleaned_names, i, table,
                   closeCalls, emitted, stopAtClose>>
    /\ UNCHANGED hostVars

\* one pass of "for row_number, row in enumerate(rows)"; after the last row,
\* write_table_to_workbook returns
WriteRow ==
    /\ pc = "rows"
    /\ row_number < Len(table)
    /\ LET row == table[row_number + 1]
           ncols == Len(table[1])
       IN  /\ sheets' = [sheets EXCEPT ![Len(sheets)].cells =
                            write_row(@, row, row_number, ncols)]
           /\ IF WrittenCols(row, ncols) < ncols
              THEN Raise("TypeError") /\ row_number' = row_number
              ELSE /\ row_number' = row_number + 1
                   /\ pc' = IF row_number' = Len(table) THEN "emit" ELSE "rows"
                   /\ error' = error
    /\ UNCHANGED <<db, conn, workbook, names, cleaned_names, i, table,
                   closeCalls, emitted, flagSeen, stopAtClose>>
    /\ UNCHANGED hostVars

\* mutant: the signal is emitted twice
EmitProgress_twice ==
    /\ pc = "emit"
    /\ emitted' = emitted \o
            <<Signal("update_prog", ProgressOf[Len(cleaned_names)][i]),
              Signal("update_prog", ProgressOf[Len(cleaned_names)][i])>>
    /\ pc' = "check"
    /\ UNCHANGED <<db, conn, workbook, names, cleaned_names, i, table, row_number,
                   sheets, closeCalls, error, flagSeen, stopAtClose>>
    /\ UNCHANGED hostVars

\* self.ui.update_prog.emit(i / len(cleaned_names) * 100)
EmitProgress ==
    /\ pc = "emit"
    /\ emitted' = Append(emitted,
                         Signal("update_prog", ProgressOf[Len(cleaned_names)][i]))
    /\ pc' = "check"
    /\ UNCHANGED <<db, conn, workbook, names, cleaned_names, i, table, row_number,
                   sheets, closeCalls, error, flagSeen, stopAtClose>>
    /\ UNCHANGED hostVars

\* mutant: break in place of sys.exit()
CheckStopped_break ==
    /\ pc = "check"
    /\ flagSeen' = (flagSeen \/ stopped)
    /\ IF ~stopped /\ i + 1 < Len(cleaned_names)
       THEN pc' = "select" /\ i' = i + 1
       ELSE pc' = "wait" /\ i' = i
    /\ UNCHANGED <<db, conn, workbook, names, cleaned_names, table, row_number,
                   sheets, closeCalls, emitted, error, stopAtClose>>
    /\ UNCHANGED hostVars

\* mutant: the loop is left after its first pass
CheckStopped_first_only ==
    /\ pc = "check"
    /\ flagSeen' = (flagSeen \/ stopped)
    /\ pc' = IF stopped THEN "Cancelled" ELSE "wait"
    /\ i' = i
    /\ UNCHANGED <<db, conn, workbook, names, cleaned_names, table, row_number,
                   sheets, closeCalls, emitted, error, stopAtClose>>
    /\ UNCHANGED hostVars

\* mutant: the thread waits, without ending, once the flag is set
CheckStopped_hangs ==
    /\ pc = "check"
    /\ flagSeen' = (flagSeen \/ stopped)
    /\ IF stopped
       THEN pc' = "check" /\ i' = i
       ELSE IF i + 1 < Len(cleaned_names)
       THEN pc' = "select" /\ i' = i + 1
       ELSE pc' = "wait" /\ i' = i
    /\ UNCHANGED <<db, conn, workbook, names, cleaned_names, table, row_number,
                   sheets, closeCalls, emitted, error, stopAtClose>>
    /\ UNCHANGED hostVars

\* if self.stopped(): sys.exit()   and the for statement's next step
CheckStopped ==
    /\ pc = "check"
    /\ flagSeen' = (flagSeen \/ stopped)
    /\ IF stopped
       THEN pc' = "Cancelled" /\ i' = i
       ELSE IF i + 1 < Len(cleaned_names)
       THEN pc' = "select" /\ i' = i + 1
       ELSE pc' = "wait" /\ i' = i
    /\ UNCHANGED <<db, conn, workbook, names, cleaned_names, table, row_number,
                   sheets, closeCalls, emitted, error, stopAtClose>>
    /\ UNCHANGED hostVars

\* mutant: the flag is polled once more before the finalisation
EmitWait_checks_flag ==
    /\ pc = "wait"
    /\ IF stopped
       THEN pc' = "Cancelled" /\ flagSeen' = TRUE /\ emitted' = emitted
       ELSE /\ emitted' = Append(emitted, Signal("wait", 0))
            /\ pc' = "close"
            /\ flagSeen' = flagSeen
    /\ UNCHANGED <<db, conn, workbook, names, cleaned_names, i, table, row_number,
                   sheets, closeCalls, error, stopAtClose>>
    /\ UNCHANGED hostVars

\* self.ui.wait.emit()
EmitWait ==
    /\ pc = "wait"
    /\ emitted' = Append(emitted, Signal("wait", 0))
    /\ pc' = "close"
    /\ UNCHANGED <<db, conn, workbook, names, cleaned_names, i, table, row_number,
                   sheets, closeCalls, error, flagSeen, stopAtClose>>
    /\ UNCHANGED hostVars

\* workbook.close() writes the file and returns
CloseWorkbook ==
    /\ pc = "close"
    /\ workbook' = "closed"
    /\ closeCalls' = closeCalls + 1
    /\ stopAtClose' = stopped
    /\ pc' = "done"
    /\ UNCHANGED <<db, conn, names, cleaned_names, i, table, row_number,
                   sheets, emitted, error, flagSeen>>
    /\ UNCHANGED hostVars

\* mutant: the error of close() is swallowed and run goes on
CloseFails_swallowed ==
    /\ pc = "close"
    /\ closeCalls' = closeCalls + 1
    /\ stopAtClose' = stopped
    /\ pc' = "done"
    /\ UNCHANGED <<db, conn, workbook, names, cleaned_names, i, table, row_number,
                   sheets, emitted, error, flagSeen>>
    /\ UNCHANGED hostVars

\* workbook.close() raises: the file at save_path cannot be created
CloseFails ==
    /\ pc = "close"
    /\ closeCalls' = closeCalls + 1
    /\ stopAtClose' = stopped
    /\ Raise("FileCreateError")
    /\ UNCHANGED <<db, conn, workbook, names, cleaned_names, i, table, row_number,
                   sheets, emitted, flagSeen>>
    /\ UNCHANGED hostVars

\* self.ui.done.emit(), and run returns
EmitDone ==
    /\ pc = "done"
    /\ emitted' = Append(emitted, Signal("done", 0))
    /\ pc' = "Done"
    /\ UNCHANGED <<db, conn, workbook, names, cleaned_names, i, table, row_number,
                   sheets, closeCalls, error, flagSeen, stopAtClose>>
    /\ UNCHANGED hostVars

Worker ==
    \/ CreateWorkbook
    \/ CreateConnection
    \/ ListTables
    \/ SelectTable
    \/ SelectTableFails
    \/ AddWorksheet
    \/ WriteRow
    \/ EmitProgress
    \/ CheckStopped
    \/ EmitWait
    \/ CloseWorkbook
    \/ CloseFails
    \/ EmitDone

(***************************************************************************)
(* The window (the main thread).                                           *)
(***************************************************************************)
workerVars == <<db, pc, conn, workbook, names, cleaned_names, i, table, row_number,
                sheets, closeCalls, emitted, error, flagSeen, stopAtClose>>

\* ConverterWindow.init: set_file_path (the path is file_path), set_save_path,
\* init_UI (the bar at 0, one log line, show) and convert_data (the Converter
\* is constructed with _stopped = False and started)
init ==
    /\ pc = "idle"
    /\ save_path' = set_save_path(file_path)
    /\ prog' = 0
    /\ logs' = Append(logs, "Selected file")
    /\ windowOpen' = TRUE
    /\ stopped' = FALSE
    /\ pc' = "workbook"
    /\ UNCHANGED <<file_path, db, conn, workbook, names, cleaned_names, i, table,
                   row_number, sheets, closeCalls, emitted, error, delivered,
                   flagSeen, stopSheets, stopPc, stopAtClose>>

\* closeEvent: self.conv.stop() sets _stopped; the window closes and the
\* event loop ends with it
Stop ==
    /\ windowOpen
    /\ stopped' = TRUE
    /\ stopSheets' = Len(sheets)
    /\ stopPc' = pc
    /\ windowOpen' = FALSE
    /\ UNCHANGED <<file_path, save_path, delivered, prog, logs>>
    /\ UNCHANGED workerVars

\* mutant: the done slot logs, and leaves the bar where it is
Deliver_done_keeps_bar ==
    /\ windowOpen
    /\ delivered < Len(emitted)
    /\ LET s == emitted[delivered + 1]
       IN  /\ prog' = IF s.sig = "update_prog" THEN s.x ELSE prog
           /\ logs' = CASE s.sig = "wait" -> Append(logs, "Saving excel file, please wait...")
                        [] s.sig = "done" -> Append(logs, "Done!")
                        [] OTHER -> logs
    /\ delivered' = delivered + 1
    /\ UNCHANGED <<file_path, save_path, windowOpen, stopped, stopSheets, stopPc>>
    /\ UNCHANGED workerVars

\* the event loop runs the slot connected to the oldest queued signal:
\* update_prog, wait or done
Deliver ==
    /\ windowOpen
    /\ delivered < Len(emitted)
    /\ LET s == emitted[delivered + 1]
       IN  /\ prog' = CASE s.sig = "update_prog" -> s.x
                        [] s.sig = "done" -> 100
                        [] OTHER -> prog
           /\ logs' = CASE s.sig = "wait" -> Append(logs, "Saving excel file, please wait...")
                        [] s.sig = "done" -> Append(logs, "Done!")
                        [] OTHER -> logs
    /\ delivered' = delivered + 1
    /\ UNCHANGED <<file_path, save_path, windowOpen, stopped, stopSheets, stopPc>>
    /\ UNCHANGED workerVars

Next == init \/ Worker \/ Stop \/ Deliver

Spec == Init /\ [][Next]_vars

\* The export of a database of many tables, the event loop never getting to
\* run a slot: what the worker does and emits is the same.
NextProg == init \/ Worker \/ Stop

SpecProg == InitProg /\ [][NextProg]_vars

\* The threads are scheduled: ConverterWindow.init runs to its end, and the
\* started worker thread takes its next step whenever it has one.
InitFair == InitOf({P_data_db}, Sources(MaxTables))

FairSpec == InitFair /\ [][Next]_vars /\ WF_vars(init) /\ WF_vars(Worker)

(***************************************************************************)
(* What the properties below observe.                                      *)
(***************************************************************************)
\* positions of the signal sig among the emitted signals
Positions(sig) == {k \in 1..Len(emitted) : emitted[k].sig = sig}

\* the values of the update_prog signals, in emission order
ProgValues ==
    LET IsProg(e) == e.sig = "update_prog"
        ps == SelectSeq(emitted, IsProg)
    IN  [k \in 1..Len(ps) |-> ps[k].x]

SheetNames == [k \in 1..Len(sheets) |-> sheets[k].name]

\* the worker is inside the loop body, ahead of the check of line 208
BeforeCheck == {"select", "add_worksheet", "rows", "emit", "check"}

\* the worker has a loop check ahead if there is a table to export
CheckAhead == {"workbook", "connect", "list"} \cup BeforeCheck

\* the table list has been computed (line 193 was executed)
Listed == pc \notin {"idle", "workbook", "connect", "list"}
          /\ error \notin {"AttributeError", "DatabaseError"}

\* every listed table has one sheet, in order, written to its last row
AllWritten ==
    /\ SheetNames = cleaned_names
    /\ cleaned_names # << >> => row_number = Len(table)

(***************************************************************************)
(* C1.  As claimed: once stop() has set the flag, no further               *)
(* write_table_to_workbook call starts and workbook.close() is not called. *)
(***************************************************************************)
C1_Original ==
    [][stopped => (Len(sheets') = Len(sheets) /\ closeCalls' = closeCalls)]_vars

(***************************************************************************)
(* C1, amended.  Once the loop's check (line 208) has read the flag set,   *)
(* the thread has ended there: no sheet beyond the table of that pass, and *)
(* the workbook is not closed.  After stop() at most one more              *)
(* write_table_to_workbook call starts (the pass in progress), and the     *)
(* workbook is closed after stop() only if no check was ahead when stop()  *)
(* ran: the last check had passed, or there was no table to export.        *)
(***************************************************************************)
C1_Amended ==
    /\ flagSeen => /\ pc = "Cancelled"
                   /\ Len(sheets) = i + 1
                   /\ closeCalls = 0
                   /\ workbook = "open"
    /\ stopped => Len(sheets) <= stopSheets + 1
    /\ (stopped /\ stopPc \in CheckAhead /\ closeCalls > 0) => cleaned_names = << >>

\* stop() ran while a table was being read; its sheet was still written, and
\* the thread ended at the check that followed
C1_Witness ==
    /\ pc = "Cancelled"
    /\ stopPc = "select"
    /\ Len(sheets) = stopSheets + 1
    /\ closeCalls = 0

(***************************************************************************)
(* C2.  done is emitted at most once, is the last signal emitted, and only *)
(* after workbook.close() returned; wait is emitted once at most, before   *)
(* close() is called and after the last update_prog; a run that reaches    *)
(* its end has emitted done exactly once.                                  *)
(***************************************************************************)
C2_DoneLastAfterClose ==
    /\ Cardinality(Positions("done")) <= 1
    /\ \A k \in Positions("done") : k = Len(emitted)
    /\ Positions("done") # {} => (workbook = "closed" /\ closeCalls = 1)
    /\ Cardinality(Positions("wait")) <= 1
    /\ \A k \in Positions("wait") : \A j \in Positions("update_prog") : j < k
    /\ closeCalls > 0 => Positions("wait") # {}
    /\ pc = "close" => (Positions("wait") # {} /\ closeCalls = 0)
    /\ pc = "Done" => Cardinality(Positions("done")) = 1

\* a run that exported a table and ended: update_prog, wait, done
C2_Witness ==
    /\ pc = "Done"
    /\ Len(emitted) >= 3
    /\ emitted[Len(emitted)].sig = "done"
    /\ workbook = "closed"

(***************************************************************************)
(* C3.  As claimed: close() is called at most once, only after every       *)
(* listed table was written, and only if stop() had not run before.        *)
(***************************************************************************)
C3_Original ==
    /\ closeCalls <= 1
    /\ closeCalls >= 1 => (AllWritten /\ ~stopAtClose)

(***************************************************************************)
(* C3, amended.  close() is called at most once, only after every listed   *)
(* table was written, and only if no check of line 208 read the flag set;  *)
(* a stop() after the last check, or with no table to export, does not     *)
(* prevent it.                                                             *)
(***************************************************************************)
C3_Amended ==
    /\ closeCalls <= 1
    /\ closeCalls >= 1 => (AllWritten /\ ~flagSeen)

\* close() was called with the flag set, after two tables were written
C3_Witness ==
    /\ closeCalls = 1
    /\ stopAtClose
    /\ Len(sheets) = 2
    /\ AllWritten

(***************************************************************************)
(* C4.  As claimed: for a source of N user tables and no system table      *)
(* (no table whose name begins with "sqlite_"), a run that reaches its end *)
(* leaves exactly N sheets, one per table, named after it, in the order    *)
(* of the catalog.                                                         *)
(***************************************************************************)
SystemPrefix == <<"s", "q", "l", "i", "t", "e", "_">>

C4_Claim ==
    LET tabs == query_names(db.catalog)
    IN  (pc = "Done" /\ \A k \in 1..Len(tabs) : ~startswith(tabs[k], SystemPrefix))
            => SheetNames = tabs

(***************************************************************************)
(* C5.  Row 0 of every sheet is the table's column names in order, and row *)
(* k >= 1 is data row k-1 cell by cell in column order (an integer as a    *)
(* number, a text as a string, NULL as an empty cell); a finished sheet    *)
(* holds nothing else, so a table without rows gives the header alone.     *)
(***************************************************************************)
\* how many rows of sheet k the writer has completed
RowsWritten(k) ==
    IF k < Len(sheets) THEN 1 + Len(EntryOf(db.catalog, sheets[k].name).rows)
    ELSE row_number

C5_SheetEqualsTable ==
    \A k \in 1..Len(sheets) :
        LET e == EntryOf(db.catalog, sheets[k].name)
            cells == sheets[k].cells
            ncols == Len(e.cols)
        IN  /\ RowsWritten(k) >= 1 =>
                \A c \in 1..ncols :
                    /\ <<0, c - 1>> \in DOMAIN cells
                    /\ cells[<<0, c - 1>>] = [kind |-> "string", v |-> e.cols[c]]
            /\ \A r \in 1..(RowsWritten(k) - 1) : \A c \in 1..ncols :
                    LET src == e.rows[r][c]
                    IN  CASE src.py = "NoneType" -> <<r, c - 1>> \notin DOMAIN cells
                          [] src.py = "int" ->
                                /\ <<r, c - 1>> \in DOMAIN cells
                                /\ cells[<<r, c - 1>>] = [kind |-> "number", v |-> src.v]
                          [] src.py = "str" ->
                                /\ <<r, c - 1>> \in DOMAIN cells
                                /\ cells[<<r, c - 1>>] = [kind |-> "string", v |-> src.v]
                          [] OTHER -> FALSE
            /\ RowsWritten(k) = 1 + Len(e.rows) =>
                    \A rc \in DOMAIN cells :
                        rc[1] \in 0..Len(e.rows) /\ rc[2] \in 0..(ncols - 1)

\* a finished run that exported users (two rows, one NULL) and logs (no row)
C5_Witness ==
    /\ pc = "Done"
    /\ \E k, j \in 1..Len(sheets) :
          /\ sheets[k].name = N_users
          /\ Cardinality(DOMAIN sheets[k].cells) = 5
          /\ sheets[j].name = N_logs
          /\ DOMAIN sheets[j].cells = {<<0, 0>>, <<0, 1>>}

(***************************************************************************)
(* C6.  As claimed: the tables listed for export are the catalog entries   *)
(* of type table whose name does not begin with "sqlite_", in catalog      *)
(* order; a table named "sqlitedata" is kept.                              *)
(***************************************************************************)
C6_Claim ==
    LET IsUserTable(e) == e.type = "table" /\ ~startswith(e.name, SystemPrefix)
        kept == SelectSeq(db.catalog, IsUserTable)
    IN  Listed => cleaned_names = [k \in 1..Len(kept) |-> kept[k].name]

(***************************************************************************)
(* C7.  As claimed: the k-th update_prog (for index i = k-1 of N) carries  *)
(* i*100/N truncated; every value is in 0..100; the values never decrease; *)
(* and once wait is emitted the last update_prog carried (N-1)*100/N       *)
(* truncated, all N tables being written.                                  *)
(***************************************************************************)
C7_Claim ==
    LET n == Len(cleaned_names)
        vs == ProgValues
    IN  /\ \A k \in 1..Len(vs) : vs[k] = ((k - 1) * 100) \div n
        /\ \A k \in 1..Len(vs) : vs[k] \in 0..100
        /\ \A k \in 1..(Len(vs) - 1) : vs[k] <= vs[k + 1]
        /\ (Positions("wait") # {} /\ n >= 1) =>
                /\ Len(vs) = n
                /\ vs[n] = ((n - 1) * 100) \div n
                /\ Len(sheets) = n

(***************************************************************************)
(* C8.  As claimed: the update_prog values are strictly increasing and     *)
(* there is exactly one update_prog per completed table, for every N.      *)
(***************************************************************************)
\* the tables whose pass has got beyond the emit of line 206
TablesReported ==
    IF pc \in {"rows", "emit"} \/ (pc = "Failed" /\ error = "TypeError")
    THEN Len(sheets) - 1 ELSE Len(sheets)

C8_Original ==
    LET vs == ProgValues
    IN  /\ \A k \in 1..(Len(vs) - 1) : vs[k] < vs[k + 1]
        /\ Len(vs) = TablesReported

(***************************************************************************)
(* C8, amended.  The update_prog values never decrease, and there is       *)
(* exactly one update_prog per completed table, for every N; the values    *)
(* are strictly increasing only for N below 100 (from N = 100 on,          *)
(* consecutive tables can report the same value).                          *)
(***************************************************************************)
C8_Amended ==
    LET vs == ProgValues
    IN  /\ \A k \in 1..(Len(vs) - 1) : vs[k] <= vs[k + 1]
        /\ Len(cleaned_names) < 100 => \A k \in 1..(Len(vs) - 1) : vs[k] < vs[k + 1]
        /\ Len(vs) = TablesReported

\* a finished export of more than 100 tables, one update_prog each, two of
\* them equal
C8_Witness ==
    /\ pc = "Done"
    /\ Len(cleaned_names) > 100
    /\ LET vs == ProgValues
       IN  /\ Len(vs) = Len(cleaned_names)
           /\ \E k \in 1..(Len(vs) - 1) : vs[k] = vs[k + 1]

C10_CancelledSilent ==
    flagSeen =>
        /\ emitted # << >>
        /\ \A k \in 1..Len(emitted) : emitted[k].sig = "update_prog"
        /\ closeCalls = 0
        /\ workbook # "closed"
        /\ pc \notin {"wait", "close", "done", "Done"}

\* cancelled at the check after the second table
C10_Witness ==
    /\ pc = "Cancelled"
    /\ flagSeen
    /\ Len(emitted) = 2
    /\ Len(sheets) = 2

(***************************************************************************)
(* C11.  As claimed: the flag is read only at the check that follows a     *)
(* table (never between two rows), every sheet of a cancelled run holds    *)
(* all the rows of its table, and a stop() issued while a table is being   *)
(* exported and a check is ahead leads to Cancelled at that check, no      *)
(* table after the one in progress being started.                          *)
(***************************************************************************)
\* the flag is read by the check of line 208 and by no other statement
C11_ReadAtBoundary == [][flagSeen' # flagSeen => pc = "check"]_vars

\* every sheet, the last one included, holds the header and all the rows
SheetsComplete ==
    \A k \in 1..Len(sheets) :
        RowsWritten(k) = 1 + Len(EntryOf(db.catalog, sheets[k].name).rows)

\* after a stop() inside the loop body the worker stays with the table that
\* was in progress until its thread ends
C11_OneTable ==
    (stopped /\ stopPc \in BeforeCheck) =>
        /\ pc \in BeforeCheck \cup {"Cancelled", "Failed"}
        /\ i = IF stopPc \in {"select", "add_worksheet"}
               THEN stopSheets ELSE stopSheets - 1
        /\ Len(sheets) <= i + 1

C11_Original ==
    /\ C11_ReadAtBoundary
    /\ [](pc = "Cancelled" => flagSeen /\ SheetsComplete)
    /\ []C11_OneTable
    /\ (stopped /\ stopPc \in BeforeCheck) ~> (pc = "Cancelled")

(***************************************************************************)
(* C11 amended: the same, except that the table in progress can fail       *)
(* (select_table or worksheet.write raises); the run then ends Failed with *)
(* that error before the check is reached and the flag is never read.      *)
(* Otherwise the run ends Cancelled at the check after that table.         *)
(***************************************************************************)
C11_Amended ==
    /\ C11_ReadAtBoundary
    /\ [](pc = "Cancelled" => flagSeen /\ SheetsComplete)
    /\ []C11_OneTable
    /\ []((stopped /\ stopPc \in BeforeCheck /\ pc = "Failed") =>
            /\ error \in {"OperationalError", "TypeError"}
            /\ ~flagSeen)
    /\ (stopped /\ stopPc \in BeforeCheck) ~> (pc \in {"Cancelled", "Failed"})
    /\ (stopped /\ stopPc \in BeforeCheck) ~> (pc = "Cancelled" \/ error # "none")

\* stop() ran between the two rows of users, the first of two tables: the
\* sheet was finished and the run cancelled at the check after it
C11_Witness ==
    /\ pc = "Cancelled"
    /\ stopPc = "rows"
    /\ stopSheets = 1
    /\ Len(cleaned_names) = 2
    /\ Len(sheets) = 1
    /\ sheets[1].name = N_users
    /\ row_number = 3
    /\ SheetsComplete

(***************************************************************************)
(* C12.  As claimed: when select_table or write_table_to_workbook raises,  *)
(* the run is over at once: no later table is read or written, neither     *)
(* wait nor done is emitted, and the connection to the database has been   *)
(* released.                                                               *)
(***************************************************************************)
C12_Claim ==
    (pc = "Failed" /\ error \in {"OperationalError", "TypeError"}) =>
        /\ Len(sheets) <= i + 1
        /\ Positions("wait") = {} /\ Positions("done") = {}
        /\ closeCalls = 0
        /\ conn # "open"

(***************************************************************************)
(* C13.  As claimed: when sqlite3.connect fails, the run ends there with a *)
(* ConnectionError: the table names are never queried, no table is read or *)
(* written and no signal is emitted.                                       *)
(***************************************************************************)
C13_Claim ==
    (db.kind = "unopenable" /\ pc \notin {"idle", "workbook", "connect"}) =>
        /\ pc = "Failed"
        /\ error = "ConnectionError"
        /\ names = << >> /\ sheets = << >> /\ emitted = << >>

(***************************************************************************)
(* C14.  As claimed: in every state where the thread has ended (the run is *)
(* done, cancelled or failed) neither the connection nor the workbook is   *)
(* still open.                                                             *)
(***************************************************************************)
C14_Claim ==
    pc \in {"Done", "Cancelled", "Failed"} =>
        /\ conn # "open"
        /\ workbook # "open"

(***************************************************************************)
(* C15.  As claimed: once set_save_path has run, save_path is the selected *)
(* path with its extension replaced by xlsx when that extension is db,     *)
(* sqlite, sqlite3 or db3 (data.db gives data.xlsx), and the selected path *)
(* followed by .xlsx otherwise.                                            *)
(***************************************************************************)
C15_Claim ==
    pc # "idle" =>
        LET ext == LastPart(file_path)
        IN  save_path =
              IF ext \in KnownExtensions /\ Len(ext) < Len(file_path)
              THEN SubSeq(file_path, 1, Len(file_path) - Len(ext)) \o <<"x","l","s","x">>
              ELSE file_path \o <<".","x","l","s","x">>

(***************************************************************************)
(* C16.  The slot of done sets the bar to 100, which no update_prog signal *)
(* of the run carried; the slot of wait leaves the bar alone.  Once done   *)
(* has been handled the bar shows 100 and no signal is left to change it.  *)
(***************************************************************************)
\* the slot of the done signal has run
DoneHandled == \E k \in Positions("done") : k <= delivered

\* the slot of the wait signal has run
WaitHandled == \E k \in Positions("wait") : k <= delivered

C16_DoneForces100 ==
    LET vs == ProgValues
    IN  /\ \A k \in 1..Len(vs) : vs[k] < 100
        /\ Positions("done") \cap Positions("wait") = {}
        /\ DoneHandled =>
              /\ prog = 100
              /\ delivered = Len(emitted)
              /\ WaitHandled
        /\ (WaitHandled /\ ~DoneHandled) =>
              /\ prog = IF vs = << >> THEN 0 ELSE vs[Len(vs)]
              /\ prog < 100

\* two tables exported: the bar went 0, 50 and done set it to 100
C16_Witness ==
    /\ DoneHandled
    /\ prog = 100
    /\ ProgValues = <<0, 50>>
    /\ logs[Len(logs)] = "Done!"

(***************************************************************************)
(* C17.  The loop index i of run never decreases and never exceeds the     *)
(* number of names in cleaned_names; names and cleaned_names do not change *)
(* once they are listed; and the number of sheets added to the workbook is *)
(* the number of update_prog signals emitted, or one more.                 *)
(***************************************************************************)
C17_CounterAndList ==
    /\ [][i' >= i]_vars
    /\ [](i <= Len(cleaned_names))
    /\ [](Listed => i < Len(cleaned_names) \/ cleaned_names = << >>)
    /\ [][Listed => names' = names /\ cleaned_names' = cleaned_names]_vars
    /\ [](Len(sheets) - Len(ProgValues) \in {0, 1})

\* the second table's sheet is being written: one signal, two sheets
C17_Witness ==
    /\ pc = "rows"
    /\ i = 1
    /\ Len(cleaned_names) = 3
    /\ Len(sheets) = 2
    /\ Len(ProgValues) = 1

(***************************************************************************)
(* C18.  As claimed: a stop() that runs after the check of the last table, *)
(* or at any point of a run that has no table to export, is never read:    *)
(* the worker emits wait, closes the workbook and emits done, and the run  *)
(* ends Done with the flag set.                                            *)
(***************************************************************************)
\* the database opens and lists no table that passes the filter
NoTables ==
    /\ db.kind \in {"valid", "missing"}
    /\ clean_names(query_names(db.catalog)) = << >>

\* stop() ran with no check of the flag ahead, in a run that had not failed
LateStop ==
    /\ stopped
    /\ \/ stopPc \in {"wait", "close", "done", "Done"}
       \/ NoTables /\ stopPc # "Failed"

\* the flag was not read, and a run that ended Done went through lines
\* 212-214 with the flag set or ended before stop()
C18_Unobserved ==
    LateStop =>
        /\ ~flagSeen
        /\ pc \notin BeforeCheck \cup {"Cancelled"}
        /\ pc = "Failed" => error = "FileCreateError"
        /\ pc = "Done" =>
              /\ workbook = "closed"
              /\ Len(emitted) >= 2
              /\ emitted[Len(emitted) - 1].sig = "wait"
              /\ emitted[Len(emitted)].sig = "done"

C18_Original ==
    /\ []C18_Unobserved
    /\ LateStop ~> (pc = "Done")

(***************************************************************************)
(* C18 amended: the same, except that workbook.close() can raise (the file *)
(* cannot be created); the run then ends Failed without done, whether or   *)
(* not the flag is set.                                                    *)
(***************************************************************************)
C18_Amended ==
    /\ []C18_Unobserved
    /\ LateStop ~> (pc = "Done" \/ (pc = "Failed" /\ error = "FileCreateError"))

\* stop() ran after the check of the second table and before wait was
\* emitted: the run ended Done, two sheets saved
C18_Witness ==
    /\ pc = "Done"
    /\ stopped
    /\ stopPc = "wait"
    /\ stopAtClose
    /\ Len(sheets) = 2
    /\ workbook = "closed"

(***************************************************************************)
(* C19.  Every run ends: the thread reaches Done (run returned after wait, *)
(* close, done), Cancelled (sys.exit() at the check of line 208) or Failed *)
(* (an exception left run), whatever the tables and whenever stop() runs.  *)
(* The three are exclusive, and once the thread has ended nothing of the   *)
(* worker changes: no table is read, no sheet written, no signal emitted.  *)
(***************************************************************************)
Terminal == pc \in {"Done", "Cancelled", "Failed"}

\* what tells the three outcomes apart
C19_OneOutcome ==
    /\ pc = "Done" <=> Positions("done") # {}
    /\ pc = "Cancelled" <=> flagSeen
    /\ pc = "Failed" <=> error # "none"
    /\ pc = "Done" => ~flagSeen /\ error = "none"
    /\ pc = "Cancelled" => error = "none"

C19_Terminates ==
    /\ <>Terminal
    /\ []C19_OneOutcome
    /\ [][Terminal => UNCHANGED workerVars]_vars

\* the second table holds a BLOB: the run ended Failed on its first row,
\* after the sheet of users was written and its signal emitted
C19_Witness ==
    /\ pc = "Failed"
    /\ error = "TypeError"
    /\ Len(sheets) = 2
    /\ sheets[1].name = N_users
    /\ sheets[2].name = N_blobs
    /\ Len(emitted) = 1

====
